---- MODULE Spec2Model ----
(***************************************************************************)
(* Model of index.js: an express server whose logToFile() appends to a     *)
(* daily log file, and whose cron job runLogMaintenance() archives root    *)
(* log files older than 7 days and purges archived files older than ~6     *)
(* months.                                                                 *)
(*                                                                         *)
(* Node runs every callback to completion, so one action is one callback   *)
(* (or the synchronous body of one function).  An asynchronous fs call is  *)
(* a record in `ops` from the moment it is issued until its callback has   *)
(* run; the file system is touched when the operation is performed, which  *)
(* for fs.readdir is a step of its own (the listing is a snapshot that the *)
(* callback reads later) and for fs.stat / fs.rename / fs.unlink /         *)
(* fs.appendFile is the step that also runs the callback (the callback     *)
(* reads nothing but the result).                                          *)
(*                                                                         *)
(* Time is counted in days: Date.now() and mtimeMs are integers in that    *)
(* unit, so ONE_DAY_MS is 1 unit and the comparisons of the source keep    *)
(* their strictness.                                                       *)
(***************************************************************************)
EXTENDS Integers, Sequences, FiniteSets, TLC

\* ---------------------------------------------------------------- bounds
MaxTicks == 2        \* cron firings explored
MaxFaults == 1       \* I/O failures explored
MaxRequests == 1     \* HTTP requests explored
MaxExternal == 1     \* steps of other actors on the log directories
StartDay == 300      \* day number on which the process starts

\* ------------------------------------------------------- program constants
ONE_DAY_MS == 1
SEVEN_DAYS_MS == 7 * ONE_DAY_MS
SIX_MONTHS_MS == 183 * ONE_DAY_MS

ArchiveName == "archive"                 \* path.join(LOG_ROOT_DIR, 'archive')
FileNames == {"f1.log", "f2.log"}        \* log files already on the volume
SubDirName == "sub"                      \* some other directory on the volume

\* toISOString().substring(0, 10) + ".log": one name per calendar day
DateString(day) == ToString(day)
getDailyLogPath(now) == DateString(now) \o ".log"

\* the days the clock can show: each cron firing is a day after the last step
\* before it, and a day may pass while a run is in progress
Days == StartDay .. (StartDay + 2 * MaxTicks)
LogNames == {getDailyLogPath(d) : d \in Days}
Names == FileNames \cup LogNames \cup {ArchiveName, SubDirName}

\* ------------------------------------------------------------ file system
NoEntry == [kind |-> "none", mtime |-> 0, data |-> ""]
File(m, d) == [kind |-> "file", mtime |-> m, data |-> d]
Dir(m) == [kind |-> "dir", mtime |-> m, data |-> ""]
EmptyDir == [n \in Names |-> NoEntry]

Listing(dir) == {n \in Names : dir[n].kind # "none"}

VARIABLES
    pc,          \* position of the process: boot, dirs, scheduled, listening, serving, crashed
    clock,       \* current day (Date.now() in days)
    ticks,       \* cron firings so far
    rootExists,  \* LOG_ROOT_DIR exists
    fs,          \* fs.root: entries of LOG_ROOT_DIR (its entry ArchiveName is ARCHIVE_DIR);
                 \* fs.archive: entries of ARCHIVE_DIR
    now,         \* the `now` captured by the current maintenance run
    ops,         \* asynchronous fs operations of the run issued and not yet called back
    appends,     \* some fs.appendFile issued by logToFile has not been called back
    console,     \* the lines written to the console since the current run began (or
                 \* since the start); each line names its path, so a run writes none twice
    faults,      \* history: the I/O failures so far, each with the run it struck
    fs0,         \* history: fs when the current run started
    requests,    \* HTTP requests served so far
    external     \* steps other actors have taken so far

vars == <<pc, clock, ticks, rootExists, fs, now, ops, appends, console,
          faults, fs0, requests, external>>

archiveExists == rootExists /\ fs.root[ArchiveName].kind = "dir"
DirExists(dirPath) == IF dirPath = "root" THEN rootExists ELSE archiveExists

\* ---------------------------------------------------------------- logging
Line(level, text, file) == [level |-> level, text |-> text, file |-> file]

\* faulty variant: the line reaches the console from the append's callback only
logToFile_Silent(lines) ==
    /\ console' = console
    /\ appends' = (appends \/ lines # {})

\* logToFile called once per element of `lines`: console.log of each line, and
\* an fs.appendFile issued for each.  Every pending append writes to the same
\* file of the day, so what the model keeps is whether one is pending.
logToFile(lines) ==
    /\ console' = console \cup lines
    /\ appends' = (appends \/ lines # {})

\* the process dies on an uncaught exception: nothing it had in flight is called back
Crash ==
    /\ pc' = "crashed"
    /\ ops' = {}
    /\ appends' = FALSE

\* ------------------------------------------------------------------- Init
\* The volume the process starts on.  Ages are those at the first cron firing:
\* just at and just above each threshold, and one root file above both.  f1.log
\* may be in root, in the archive or in both; f2.log is in at most one of them.
FirstTick == StartDay + 1
RootAges == [n \in FileNames |-> IF n = "f1.log" THEN {7, 8, 184} ELSE {8}]
ArchAges == [n \in FileNames |-> IF n = "f1.log" THEN {183, 184} ELSE {184}]

RootChoice == [n \in FileNames |-> {NoEntry} \cup {File(FirstTick - a, "R") : a \in RootAges[n]}]
ArchChoice == [n \in FileNames |-> {NoEntry} \cup {File(FirstTick - a, "A") : a \in ArchAges[n]}]

Volume(files, sub) ==
    [n \in Names |-> IF n \in FileNames THEN files[n]
                     ELSE IF n = SubDirName THEN sub ELSE NoEntry]
RootVolumes ==
    {Volume(c, Dir(FirstTick - 10)) :
        c \in {c \in [FileNames -> UNION {RootChoice[n] : n \in FileNames}] :
                  \A n \in FileNames : c[n] \in RootChoice[n]}}
ArchVolumes ==
    {Volume(c, Dir(FirstTick - 200)) :
        c \in {c \in [FileNames -> UNION {ArchChoice[n] : n \in FileNames}] :
                  \A n \in FileNames : c[n] \in ArchChoice[n]}}

Init ==
    /\ pc = "boot"
    /\ clock = StartDay
    /\ ticks = 0
    /\ now = StartDay
    /\ ops = {}
    /\ appends = FALSE
    /\ console = {}
    /\ faults = {}
    /\ requests = 0
    /\ external = 0
    /\ \/ /\ rootExists = FALSE
          /\ fs = [root |-> EmptyDir, archive |-> EmptyDir]
       \/ /\ rootExists = TRUE
          /\ \E r \in RootVolumes :
                \/ /\ r["f2.log"] = NoEntry
                   /\ fs = [root |-> r, archive |-> EmptyDir]
                \/ \E a \in ArchVolumes :
                      /\ r["f2.log"] = NoEntry \/ a["f2.log"] = NoEntry
                      /\ fs = [root |-> [r EXCEPT ![ArchiveName] = Dir(StartDay - 1)],
                               archive |-> a]
    /\ fs0 = fs

\* ---------------------------------------------------------------- startup
\* faulty variant: the archive directory is not created
MkdirArchive_Nothing(f) == f

\* fs.mkdirSync(ARCHIVE_DIR, { recursive: true }): an empty directory, entered in root
MkdirArchive(f) == [f EXCEPT !.root[ArchiveName] = Dir(clock), !.archive = EmptyDir]

\* initializeDirectories(): each directory is created when fs.existsSync finds it
\* absent (root first, and then it is empty), and each creation is logged
initializeDirectories ==
    /\ pc = "boot"
    /\ pc' = "dirs"
    /\ rootExists' = TRUE
    /\ fs' = IF archiveExists THEN fs ELSE MkdirArchive(fs)
    /\ logToFile((IF rootExists THEN {}
                  ELSE {Line("SETUP", "Created persistent root log directory", "root")})
                 \cup (IF archiveExists THEN {}
                       ELSE {Line("SETUP", "Created persistent archive log directory", "archive")}))
    /\ UNCHANGED <<clock, ticks, now, ops, faults, fs0, requests, external>>

\* fs.mkdirSync throws (read-only volume, no permission): the module's top-level
\* code ends with an uncaught exception
initializeDirectoriesThrows ==
    /\ pc = "boot"
    /\ ~rootExists \/ ~archiveExists
    /\ Crash
    /\ UNCHANGED <<clock, ticks, rootExists, fs, now, console, faults, fs0, requests, external>>

\* cron.schedule('0 0 * * *', runLogMaintenance, ...) and the line logged after it
cronSchedule ==
    /\ pc = "dirs"
    /\ pc' = "scheduled"
    /\ logToFile({Line("SETUP", "Log maintenance job scheduled", "")})
    /\ UNCHANGED <<clock, ticks, rootExists, fs, now, ops, faults, fs0, requests, external>>

\* app.listen(PORT, HOST, callback), the last statement of the module
appListen ==
    /\ pc = "scheduled"
    /\ pc' = "listening"
    /\ UNCHANGED <<clock, ticks, rootExists, fs, now, ops, appends, console, faults, fs0,
                   requests, external>>

\* the callback of app.listen
appListenCallback ==
    /\ pc = "listening"
    /\ pc' = "serving"
    /\ logToFile({Line("INFO", "Server successfully started", "")})
    /\ UNCHANGED <<clock, ticks, rootExists, fs, now, ops, faults, fs0, requests, external>>

\* cron fires at midnight, long after the start-up code has run
Scheduled == pc = "serving"

\* ------------------------------------------------------------ HTTP route
\* app.get('/'): the request is logged and answered
appGet ==
    /\ pc = "serving"
    /\ requests < MaxRequests
    /\ requests' = requests + 1
    /\ logToFile({Line("INFO", "GET request received", "")})
    /\ UNCHANGED <<pc, clock, ticks, rootExists, fs, now, ops, faults, fs0, external>>

\* the line of console.error in the callback of fs.appendFile
WriteFailed == Line("STDERR", "Failed to write to persistent log file", "")

\* the callback of fs.appendFile(currentLogPath, logEntry, cb): the file of the
\* day is created when absent and its modification time becomes the current time
appendFileDone ==
    /\ pc # "crashed"
    /\ appends
    /\ appends' \in BOOLEAN
    /\ IF rootExists /\ fs.root[getDailyLogPath(clock)].kind # "dir"
       THEN /\ fs' = [fs EXCEPT !.root[getDailyLogPath(clock)] = File(clock, "log")]
            /\ console' = console
       ELSE /\ fs' = fs
            /\ console' = console \cup {WriteFailed}
    /\ UNCHANGED <<pc, clock, ticks, rootExists, now, ops, faults, fs0, requests, external>>

\* fs.appendFile fails although the directory is there (ENOSPC, EACCES, EIO): the
\* callback gets err and reports it with console.error
appendFileFails ==
    /\ pc # "crashed"
    /\ appends
    /\ appends' \in BOOLEAN
    /\ console' = console \cup {WriteFailed}
    /\ UNCHANGED <<pc, clock, ticks, rootExists, fs, now, ops, faults, fs0, requests, external>>

\* ------------------------------------------------------- log maintenance
\* the two calls of processDirectory(dirPath, maxAgeMs, isPurge)
Rules == {"archive", "purge"}
dirPath(rule) == IF rule = "archive" THEN "root" ELSE "archive"
maxAgeMs(rule) == IF rule = "archive" THEN SEVEN_DAYS_MS ELSE SIX_MONTHS_MS
\* faulty variant: every rule deletes
isPurge_Always(rule) == TRUE
isPurge(rule) == rule = "purge"

Op(op, rule, file) == [op |-> op, rule |-> rule, file |-> file, files |-> {}, err |-> FALSE]
Listed(rule, files, err) ==
    [op |-> "readdirCb", rule |-> rule, file |-> "", files |-> files, err |-> err]

\* path.join(dirPath, file)
path_join(dir, file) == dir \o "/" \o file

\* what fs.stat / fs.statSync finds at filePath
Entry(dir, file) == IF DirExists(dir) THEN fs[dir][file] ELSE NoEntry

CanFault == Cardinality(faults) < MaxFaults
Fault(op, rule, file) ==
    faults' = faults \cup {[run |-> ticks, op |-> op, rule |-> rule, file |-> file]}

Quiet == ops = {} /\ ~appends

\* the synchronous body of runLogMaintenance, fired by cron at midnight UTC: both
\* fs.readdir calls are issued, and both lines are logged, before any callback runs
runLogMaintenance ==
    /\ Scheduled
    /\ ticks < MaxTicks
    /\ Quiet                       \* the previous day's operations have long ended
    /\ ticks' = ticks + 1
    /\ clock' = clock + ONE_DAY_MS
    /\ now' = clock'
    /\ ops' = {Op("readdir", "archive", ""), Op("readdir", "purge", "")}
    /\ console' = {Line("MAINTENANCE", "Starting daily log maintenance...", ""),
                    Line("MAINTENANCE", "Log maintenance finished.", "")}
    /\ appends' = TRUE
    /\ fs0' = fs
    /\ UNCHANGED <<pc, rootExists, fs, faults, requests, external>>

\* fs.readdir(dirPath) is performed: the listing is taken
readdirPerformed(rule) ==
    /\ pc # "crashed"
    /\ Op("readdir", rule, "") \in ops
    /\ ops' = (ops \ {Op("readdir", rule, "")})
                \cup {Listed(rule, IF DirExists(dirPath(rule)) THEN Listing(fs[dirPath(rule)]) ELSE {},
                             ~DirExists(dirPath(rule)))}
    /\ UNCHANGED <<pc, clock, ticks, rootExists, fs, now, appends, console, faults, fs0,
                   requests, external>>

\* fs.readdir(dirPath) fails (EACCES, EIO, EMFILE)
readdirFails(rule) ==
    /\ pc # "crashed"
    /\ Op("readdir", rule, "") \in ops
    /\ CanFault
    /\ Fault("readdir", rule, "")
    /\ ops' = (ops \ {Op("readdir", rule, "")}) \cup {Listed(rule, {}, TRUE)}
    /\ UNCHANGED <<pc, clock, ticks, rootExists, fs, now, appends, console, fs0,
                   requests, external>>

\* faulty variant: no entry is skipped
SkipDirectories_None(dir, files) == files

\* files.forEach: the entries the synchronous fs.statSync(filePath).isDirectory()
\* lets through, each of which gets an fs.stat
SkipDirectories(dir, files) == {f \in files : Entry(dir, f).kind # "dir"}

\* the callback of fs.readdir, all statSync calls succeeding
readdirCallback(rule) ==
    /\ pc # "crashed"
    /\ \E o \in ops :
        /\ o.op = "readdirCb" /\ o.rule = rule
        /\ IF o.err
           THEN /\ ops' = ops \ {o}
                /\ logToFile({Line("ERROR", "Failed to read directory", dirPath(rule))})
           ELSE /\ \A f \in o.files : Entry(dirPath(rule), f).kind # "none"
                /\ ops' = (ops \ {o})
                            \cup {Op("stat", rule, f) : f \in SkipDirectories(dirPath(rule), o.files)}
                /\ UNCHANGED <<appends, console>>
    /\ UNCHANGED <<pc, clock, ticks, rootExists, fs, now, faults, fs0, requests, external>>

\* the callback of fs.readdir, fs.statSync throwing ENOENT on a listed entry that
\* is no longer there: nothing catches the exception
readdirCallbackThrows(rule) ==
    /\ pc # "crashed"
    /\ \E o \in ops :
        /\ o.op = "readdirCb" /\ o.rule = rule /\ ~o.err
        /\ \E f \in o.files : Entry(dirPath(rule), f).kind = "none"
    /\ Crash
    /\ UNCHANGED <<clock, ticks, rootExists, fs, now, console, faults, fs0, requests, external>>

\* the callback of fs.readdir, fs.statSync throwing on a listed entry that is there
\* but cannot be examined (EACCES, EIO, ELOOP): nothing catches the exception
statSyncFails(rule) ==
    /\ pc # "crashed"
    /\ CanFault
    /\ \E o \in ops :
        /\ o.op = "readdirCb" /\ o.rule = rule /\ ~o.err
        /\ \E f \in o.files :
            /\ Entry(dirPath(rule), f).kind # "none"
            /\ Fault("statSync", rule, f)
    /\ Crash
    /\ UNCHANGED <<clock, ticks, rootExists, fs, now, console, fs0, requests, external>>

\* faulty variant: the age taken from the time at which the stat completes
Eligible_AtStatTime(rule, mtimeMs, nowMs) == clock - mtimeMs > maxAgeMs(rule)
\* faulty variant: the age taken with the wrong sign
Eligible_SignFlipped(rule, mtimeMs, nowMs) == mtimeMs - nowMs > maxAgeMs(rule)
\* faulty variant: the comparison turned round
Eligible_Inverted(rule, mtimeMs, nowMs) == nowMs - mtimeMs < maxAgeMs(rule)

\* fileAge > maxAgeMs, with fileAge = now - stats.mtimeMs
Eligible(rule, mtimeMs, nowMs) == nowMs - mtimeMs > maxAgeMs(rule)

\* the callback of fs.stat(filePath)
statCallback ==
    \E o \in ops :
      LET rule == o.rule
          file == o.file IN
        /\ pc # "crashed"
        /\ Op("stat", rule, file) \in ops
        /\ LET e == Entry(dirPath(rule), file) IN
           IF e.kind = "none"
           THEN /\ ops' = ops \ {Op("stat", rule, file)}
                /\ logToFile({Line("ERROR", "Failed to stat file", path_join(dirPath(rule), file))})
           ELSE /\ ops' = (ops \ {Op("stat", rule, file)})
                            \cup (IF Eligible(rule, e.mtime, now)
                                  THEN {Op(IF isPurge(rule) THEN "unlink" ELSE "rename", rule, file)}
                                  ELSE {})
                /\ UNCHANGED <<appends, console>>
        /\ UNCHANGED <<pc, clock, ticks, rootExists, fs, now, faults, fs0, requests, external>>

\* fs.stat(filePath) fails although the file is there (EACCES, EIO)
statFails ==
    \E o \in ops :
      LET rule == o.rule
          file == o.file IN
        /\ pc # "crashed"
        /\ Op("stat", rule, file) \in ops
        /\ CanFault
        /\ Fault("stat", rule, file)
        /\ ops' = ops \ {Op("stat", rule, file)}
        /\ logToFile({Line("ERROR", "Failed to stat file", path_join(dirPath(rule), file))})
        /\ UNCHANGED <<pc, clock, ticks, rootExists, fs, now, fs0, requests, external>>

\* rename(2) from dirPath into ARCHIVE_DIR under the same name: it succeeds when
\* the source exists and the destination is absent or of the source's kind, and
\* then REPLACES the destination
RenameOk(f, dir, file) ==
    /\ DirExists(dir) /\ archiveExists
    /\ f[dir][file].kind # "none"
    /\ ~(dir = "root" /\ file = ArchiveName)
    /\ dir # "archive"
    /\ f.archive[file].kind \in {"none", f[dir][file].kind}
Rename(f, dir, file) ==
    [f EXCEPT !.archive[file] = f[dir][file], ![dir][file] = NoEntry]

\* unlink(2): only a file can be unlinked
UnlinkOk(f, dir, file) == DirExists(dir) /\ f[dir][file].kind = "file"
Unlink(f, dir, file) == [f EXCEPT ![dir][file] = NoEntry]

\* the callback of fs.rename(filePath, destPath)
renameCallback ==
    \E o \in ops :
      LET rule == o.rule
          file == o.file IN
        /\ pc # "crashed"
        /\ Op("rename", rule, file) \in ops
        /\ ops' = ops \ {Op("rename", rule, file)}
        /\ IF RenameOk(fs, dirPath(rule), file)
           THEN /\ fs' = Rename(fs, dirPath(rule), file)
                /\ logToFile({Line("MAINTENANCE", "ARCHIVED log file", file)})
           ELSE /\ fs' = fs
                /\ logToFile({Line("ERROR", "Failed to move log to archive", path_join(dirPath(rule), file))})
        /\ UNCHANGED <<pc, clock, ticks, rootExists, now, faults, fs0, requests, external>>

\* fs.rename fails although it could have succeeded (EACCES, EIO, ENOSPC)
renameFails ==
    \E o \in ops :
      LET rule == o.rule
          file == o.file IN
        /\ pc # "crashed"
        /\ Op("rename", rule, file) \in ops
        /\ CanFault
        /\ Fault("rename", rule, file)
        /\ ops' = ops \ {Op("rename", rule, file)}
        /\ logToFile({Line("ERROR", "Failed to move log to archive", path_join(dirPath(rule), file))})
        /\ UNCHANGED <<pc, clock, ticks, rootExists, fs, now, fs0, requests, external>>

\* the callback of fs.unlink(filePath)
unlinkCallback ==
    \E o \in ops :
      LET rule == o.rule
          file == o.file IN
        /\ pc # "crashed"
        /\ Op("unlink", rule, file) \in ops
        /\ ops' = ops \ {Op("unlink", rule, file)}
        /\ IF UnlinkOk(fs, dirPath(rule), file)
           THEN /\ fs' = Unlink(fs, dirPath(rule), file)
                /\ logToFile({Line("MAINTENANCE", "PURGED log file", file)})
           ELSE /\ fs' = fs
                /\ logToFile({Line("ERROR", "Failed to delete old log", path_join(dirPath(rule), file))})
        /\ UNCHANGED <<pc, clock, ticks, rootExists, now, faults, fs0, requests, external>>

\* fs.unlink fails although it could have succeeded (EACCES, EIO)
unlinkFails ==
    \E o \in ops :
      LET rule == o.rule
          file == o.file IN
        /\ pc # "crashed"
        /\ Op("unlink", rule, file) \in ops
        /\ CanFault
        /\ Fault("unlink", rule, file)
        /\ ops' = ops \ {Op("unlink", rule, file)}
        /\ logToFile({Line("ERROR", "Failed to delete old log", path_join(dirPath(rule), file))})
        /\ UNCHANGED <<pc, clock, ticks, rootExists, fs, now, fs0, requests, external>>

\* ------------------------------------------------------------ other actors
\* Another process removes an entry of a log directory while a run is in progress
\* (a removal before the run is a different volume at its start).
otherRemoves(dir, file) ==
    /\ pc = "serving"
    /\ ops # {}
    /\ external < MaxExternal
    /\ external' = external + 1
    /\ DirExists(dir)
    /\ fs[dir][file].kind = "file"
    /\ fs' = [fs EXCEPT ![dir][file] = NoEntry]
    /\ UNCHANGED <<pc, clock, ticks, rootExists, now, ops, appends, console, faults, fs0, requests>>

\* Another process writes to a file of a log directory while a run is in progress:
\* its modification time becomes the current time.
otherTouches(dir, file) ==
    /\ pc = "serving"
    /\ ops # {}
    /\ external < MaxExternal
    /\ external' = external + 1
    /\ DirExists(dir)
    /\ fs[dir][file].kind = "file"
    /\ fs[dir][file].mtime # clock
    /\ fs' = [fs EXCEPT ![dir][file].mtime = clock]
    /\ UNCHANGED <<pc, clock, ticks, rootExists, now, ops, appends, console, faults, fs0, requests>>

\* The root log directory is removed with all it holds (the volume is unmounted or
\* wiped) while the process is serving and has no operation in flight.
otherRemovesRoot ==
    /\ pc = "serving"
    /\ Quiet
    /\ rootExists
    /\ external < MaxExternal
    /\ external' = external + 1
    /\ rootExists' = FALSE
    /\ fs' = [root |-> EmptyDir, archive |-> EmptyDir]
    /\ UNCHANGED <<pc, clock, ticks, now, ops, appends, console, faults, fs0, requests>>

\* Time passes while a run is in progress: Date.now() is a day later than the
\* run's `now` (at most one day per run, and not while an append is in flight,
\* whose path was computed from the time of its call).
timePasses ==
    /\ pc = "serving"
    /\ ops # {}
    /\ ~appends
    /\ clock = now
    /\ clock' = clock + ONE_DAY_MS
    /\ UNCHANGED <<pc, ticks, rootExists, fs, now, ops, appends, console, faults, fs0,
                   requests, external>>

\* ------------------------------------------------------------------ Next
Startup ==
    \/ initializeDirectories
    \/ initializeDirectoriesThrows
    \/ cronSchedule
    \/ appListen
    \/ appListenCallback

Maintenance ==
    \/ runLogMaintenance
    \/ \E rule \in Rules :
        \/ readdirPerformed(rule)
        \/ readdirCallback(rule)
    \/ statCallback
    \/ renameCallback
    \/ unlinkCallback

\* operations failing for reasons outside the model (permissions, the device)
IOFailure ==
    \/ \E rule \in Rules :
        \/ readdirFails(rule)
        \/ statSyncFails(rule)
    \/ statFails
    \/ renameFails
    \/ unlinkFails

OtherActor ==
    \E dir \in {"root", "archive"}, file \in FileNames :
        \/ otherRemoves(dir, file)
        \/ otherTouches(dir, file)

Program ==
    \/ Startup
    \/ Maintenance
    \/ appendFileDone

\* the process alone on its volume, operations failing now and then
Next == Program \/ IOFailure
Spec == Init /\ [][Next]_vars

\* a listed entry is gone when the callback examines it: with the process alone
\* on its volume nothing removes an entry between a listing and its callback, so
\* this step is enabled only beside other actors
Raced == \E rule \in Rules : readdirCallbackThrows(rule)

\* the process sharing its volume with other actors
NextEnv == Program \/ Raced \/ OtherActor
SpecEnv == Init /\ [][NextEnv]_vars

\* the process on a volume whose files other actors write to, time passing during
\* its runs
OtherWriter == \E dir \in {"root", "archive"}, file \in FileNames : otherTouches(dir, file)
NextTime == Program \/ OtherWriter \/ timePasses
SpecTime == Init /\ [][NextTime]_vars

\* the process serving requests, its appends failing now and then and its log
\* directory liable to be removed under it
NextHttp == Program \/ appGet \/ appendFileFails \/ otherRemovesRoot
SpecHttp == Init /\ [][NextHttp]_vars

\* the event loop runs every callback whose operation has completed, and cron
\* fires at every midnight: no step of the program stays enabled for ever without
\* being taken.  The failures of IOFailure may strike but need not.
SpecLive == Init /\ [][Next]_vars /\ WF_vars(Program)

\* =================================================================== claims
\* every operation the current run issued has been called back
RunEnded == ticks > 0 /\ pc = "serving" /\ ops = {}
\* the current run can do no more: it ended, or the process died under it
RunOver == ticks > 0 /\ (ops = {} \/ pc = "crashed")
Errors == {l \in console : l.level = "ERROR"}
RunFaults == {x \in faults : x.run = ticks}
NoIOFailure == RunFaults = {} /\ Errors = {}
IsFile(e) == e.kind = "file"
AgeAtStart(e) == now - e.mtime
Threshold(dir) == IF dir = "root" THEN SEVEN_DAYS_MS ELSE SIX_MONTHS_MS
\* the files of `dir` that qualified for its rule when the current run started
Qualified(dir) ==
    {f \in Names : IsFile(fs0[dir][f]) /\ AgeAtStart(fs0[dir][f]) > Threshold(dir)}
\* the file that was `dir`/f when the run started is no longer there
Gone(dir, f) == fs[dir][f] # fs0[dir][f]

\* C1: every regular file in root when a tick starts with age > 7 days is, once the
\* tick's operations have completed without I/O failure, in the archive under the
\* same name and not in root; root files of age <= 7 days remain in root.
C1_ArchivedAfterTick ==
    (RunEnded /\ NoIOFailure) =>
        \A f \in Names :
            IsFile(fs0.root[f]) =>
                IF AgeAtStart(fs0.root[f]) > SEVEN_DAYS_MS
                THEN fs.archive[f] = fs0.root[f] /\ fs.root[f] = NoEntry
                ELSE fs.root[f] = fs0.root[f]

\* C2: every regular file in the archive when a tick starts with age > 183 days
\* is, once the tick's operations have completed without I/O failure, neither in
\* the archive nor in root.
C2_PurgedAfterTick ==
    (RunEnded /\ NoIOFailure) =>
        \A f \in Qualified("archive") :
            fs.archive[f] # fs0.archive[f] /\ fs.root[f] # fs0.archive[f]

\* C2 witness: a run ended without failure and an archive file older than 183
\* days at its start has been deleted.
C2_Witness ==
    /\ RunEnded /\ NoIOFailure
    /\ \E f \in Qualified("archive") : fs.archive[f] = NoEntry /\ fs.root[f] = NoEntry

\* C3: no step moves a root file of age <= 7 days out of root, and no step
\* deletes an archive file of age <= 183 days.
C3_NeverActsAtOrBelowThreshold ==
    [][\A f \in Names :
        /\ (IsFile(fs.root[f]) /\ fs'.root[f] = NoEntry) =>
                now - fs.root[f].mtime > SEVEN_DAYS_MS
        /\ (IsFile(fs.archive[f]) /\ fs'.archive[f] = NoEntry) =>
                now - fs.archive[f].mtime > SIX_MONTHS_MS]_vars

\* C4: when the archive rule moves a root file whose name is already taken in the
\* archive, the move fails with a logged error and both files stay as they were.
C4_CollisionKeepsBoth ==
    [][\A f \in Names :
        (/\ Op("rename", "archive", f) \in ops
         /\ Op("rename", "archive", f) \notin ops'
         /\ pc' # "crashed"
         /\ IsFile(fs.root[f]) /\ IsFile(fs.archive[f]))
        => (/\ fs' = fs
            /\ Line("ERROR", "Failed to move log to archive", path_join("root", f))
                    \in console')]_vars

\* C5: when one entry of a scanned directory fails to be examined, statted, moved
\* or deleted, every other entry of that directory that qualified is archived or
\* purged in the same tick and exactly one error is logged for the failing entry.
C5_FailureSkipsOnlyThatEntry ==
    \A x \in RunFaults :
        (RunOver /\ RunFaults = {x} /\ x.op # "readdir") =>
            /\ \A g \in Qualified(dirPath(x.rule)) \ {x.file} : Gone(dirPath(x.rule), g)
            /\ Cardinality({l \in Errors : l.file = path_join(dirPath(x.rule), x.file)}) = 1

\* C6: a listed file that disappears before the engine examines, stats, moves or
\* deletes it is skipped: the process does not terminate under a run.
C6_VanishedIsSkipped == ticks > 0 => pc # "crashed"

\* C7: the archive subdirectory is never moved, deleted or descended into: once
\* created it exists for good, no stat, move or delete is ever issued for a
\* directory, and no step changes a directory entry.
C7_ArchiveDirUntouched ==
    /\ []((pc # "boot" /\ (pc = "crashed" => ticks > 0)) => archiveExists)
    /\ [](\A o \in ops :
            o.op \in {"stat", "rename", "unlink"} =>
                Entry(dirPath(o.rule), o.file).kind # "dir")
    /\ [][\A dir \in {"root", "archive"} : \A n \in Names :
            (pc # "boot" /\ fs[dir][n].kind = "dir") => fs'[dir][n] = fs[dir][n]]_vars

\* C7 witness: a run that listed root with its subdirectories in it has ended,
\* having archived a file.
C7_Witness ==
    /\ RunEnded
    /\ fs0.root[ArchiveName].kind = "dir" /\ fs0.root[SubDirName].kind = "dir"
    /\ \E f \in Names : IsFile(fs0.root[f]) /\ fs.archive[f] = fs0.root[f]

\* root and archive are as they were when the run started, but for the file of the
\* day, to which the run appends its own lines
SameButRunLog ==
    \A dir \in {"root", "archive"} : \A n \in Names :
        (dir = "root" /\ n = getDailyLogPath(now)) \/ fs[dir][n] = fs0[dir][n]

\* C8 as claimed: a second tick, run after a first with no failure and no file
\* added or touched, changes nothing and logs no error.
C8_SecondTickChangesNothing ==
    (ticks >= 2 /\ RunEnded /\ faults = {}) => (SameButRunLog /\ Errors = {})

\* C8 as amended: a second (or later) tick without I/O failure that starts with no
\* file qualifying for either rule changes nothing but the day's log file it
\* writes to, and logs no error.
C8_TickIdleWhenNoneQualifies ==
    (/\ ticks >= 2 /\ RunFaults = {}
     /\ Qualified("root") = {} /\ Qualified("archive") = {})
    => (SameButRunLog /\ Errors = {})

\* C8 witness: a second tick has ended, started with nothing qualifying after the
\* first tick had archived a file.
C8_Witness ==
    /\ ticks = 2 /\ RunEnded /\ RunFaults = {}
    /\ Qualified("root") = {} /\ Qualified("archive") = {}
    /\ \E f \in FileNames : IsFile(fs0.archive[f]) /\ fs0.archive[f].data = "R"

\* C9: the purge rule's scan of the archive begins only when the archive rule's
\* application to root (its listing and every move) has finished.
C9_PurgeAfterArchive ==
    ~(/\ \E o \in ops : o.rule = "purge" /\ o.op # "readdir"
      /\ \E o \in ops : o.rule = "archive")

\* C10: a failure inside one rule's application never keeps the other rule from
\* being applied, in the same tick, to every file that qualifies for it.
C10_RulesIndependent ==
    \A r \in Rules :
        (RunOver /\ RunFaults # {} /\ \A x \in RunFaults : x.rule = r) =>
            \A q \in Rules \ {r} : \A g \in Qualified(dirPath(q)) : Gone(dirPath(q), g)

\* C11: every maintenance tick that starts eventually completes and leaves the
\* process idle and serving, whatever errors struck during it, so that later
\* ticks can run.
C11_TickCompletes == (ops # {}) ~> (pc = "serving" /\ ops = {})

\* a line logged by the caller of the step
Logged(level, text) == Line(level, text, "") \in console'
\* the step is the callback of a failed fs.appendFile
AppendFailedStep == WriteFailed \notin console /\ WriteFailed \in console'

\* C12: a call of the log writer never fails its caller.  Each caller (start-up
\* code, request handler, maintenance run) goes on as it would and has its line on
\* the console in the very step that issues the append, whatever becomes of the
\* append; the step in which an append fails reports it and changes nothing else.
C12_WriterNeverFailsCaller ==
    [][/\ (requests' # requests) =>
            (pc' = "serving" /\ Logged("INFO", "GET request received"))
       /\ (ticks' # ticks) =>
            (/\ pc' = "serving" /\ ops' # {}
             /\ Logged("MAINTENANCE", "Starting daily log maintenance...")
             /\ Logged("MAINTENANCE", "Log maintenance finished."))
       /\ (pc = "dirs" /\ pc' # pc) =>
            (pc' = "scheduled" /\ Logged("SETUP", "Log maintenance job scheduled"))
       /\ (pc = "listening" /\ pc' # pc) =>
            (pc' = "serving" /\ Logged("INFO", "Server successfully started"))
       /\ AppendFailedStep =>
            (/\ console \subseteq console'
             /\ UNCHANGED <<pc, ops, fs, rootExists, requests, ticks>>)]_vars

\* C12 witness: the append of a request's line has failed, the line is on the
\* console and the process is serving.
C12_Witness ==
    /\ pc = "serving" /\ requests > 0
    /\ WriteFailed \in console
    /\ Line("INFO", "GET request received", "") \in console

\* C13: the root log directory and the archive directory exist from the moment
\* start-up passes initializeDirectories, hence before cron.schedule and before
\* app.listen; when both exist already, initializeDirectories changes nothing
\* and logs nothing.
C13_DirectoriesBeforeStart ==
    /\ [](pc \in {"dirs", "scheduled", "listening", "serving"} =>
            (rootExists /\ archiveExists))
    /\ [][(pc = "boot" /\ rootExists /\ archiveExists) =>
            (/\ pc' = "dirs"
             /\ UNCHANGED <<rootExists, fs, console, appends, ops>>)]_vars

\* C13 witness: the server is listening with the scheduler started, on a volume
\* that had the root directory but no archive directory.
C13_Witness ==
    /\ pc = "listening"
    /\ Line("SETUP", "Created persistent archive log directory", "archive") \in console
    /\ Line("SETUP", "Created persistent root log directory", "root") \notin console
    /\ rootExists /\ archiveExists

\* C14: a write issued while the root log directory does not exist results in the
\* directory existing and the entry appended to the file of the current day.  (The
\* directory is removed only while no append is pending, so an append pending
\* without it was issued without it.)
C14_WriterCreatesRoot ==
    [][(~rootExists /\ pc = "serving" /\ appends /\ ~appends') =>
            (rootExists' /\ IsFile(fs'.root[getDailyLogPath(clock)]))]_vars

\* the failures of a move or a delete
MoveOrDelete(xs) == {x \in xs : x.op \in {"rename", "unlink"}}
\* the line logged for a failed move or delete
FailureLine(x) ==
    Line("ERROR",
         IF x.op = "rename" THEN "Failed to move log to archive" ELSE "Failed to delete old log",
         path_join(dirPath(x.rule), x.file))
\* the step in which a move or delete fails logs it, changes no file and does not
\* issue the operation again
FailedStepLeavesEntry ==
    \A x \in MoveOrDelete(faults' \ faults) :
        /\ fs' = fs
        /\ ops' = ops \ {Op(x.op, x.rule, x.file)}
        /\ FailureLine(x) \in console'
\* no later step of the run changes the entry
EntryLeftForNextTick ==
    \A x \in MoveOrDelete(RunFaults) :
        fs'[dirPath(x.rule)][x.file] = fs[dirPath(x.rule)][x.file]

\* C15: when a move or delete of an eligible entry fails, the failure is logged,
\* the operation is not retried within the tick, and the entry is left unchanged
\* at its original path, where the next tick finds it.
C15_FailedEntryLeftInPlace ==
    [][FailedStepLeavesEntry /\ EntryLeftForNextTick]_vars

\* the operation the rule applies to an eligible file
Action(rule, file) == Op(IF rule = "purge" THEN "unlink" ELSE "rename", rule, file)

\* C16: within a run every file is judged by one timestamp, captured when the run
\* starts, and by the last-modified time the file has when it is statted: `now`
\* changes only when a run starts, to the time of that moment, and the callback of
\* a stat issues the move or delete exactly when `now` minus the file's current
\* last-modified time exceeds the rule's threshold, whatever the time has become.
C16_AgeFromRunStartAndMtime ==
    [][/\ (now' # now) => (ticks' = ticks + 1 /\ now' = clock')
       /\ \A o \in ops :
            (o.op = "stat" /\ o \notin ops' /\ IsFile(fs[dirPath(o.rule)][o.file]))
            => ((Action(o.rule, o.file) \in ops')
                    <=> (now - fs[dirPath(o.rule)][o.file].mtime
                            > Threshold(dirPath(o.rule))))]_vars

\* C16 witness: a run has ended during which a day passed and in which a root file
\* older than 7 days at its start, touched before its stat, was left in root.
C16_Witness ==
    /\ RunEnded /\ clock > now /\ Errors = {}
    /\ \E f \in FileNames :
        /\ IsFile(fs0.root[f]) /\ AgeAtStart(fs0.root[f]) > SEVEN_DAYS_MS
        /\ IsFile(fs.root[f]) /\ fs.root[f].mtime > fs0.root[f].mtime

\* C17: maintenance never deletes a file from root.  A delete is only ever issued
\* by the purge rule and a move only by the archive rule, and every step by which
\* a file leaves root puts that same file into the archive under the same name.
C17_RootFilesOnlyMoved ==
    /\ [](\A o \in ops :
            /\ (o.op = "unlink") => (dirPath(o.rule) = "archive")
            /\ (o.op = "rename") => (dirPath(o.rule) = "root"))
    /\ [][\A f \in Names :
            (IsFile(fs.root[f]) /\ fs'.root[f] = NoEntry) =>
                fs'.archive[f] = fs.root[f]]_vars

\* C17 witness: a run has ended in which a root file was moved into the archive
\* and an archive file was deleted.
C17_Witness ==
    /\ RunEnded
    /\ \E f \in Names : IsFile(fs0.root[f]) /\ fs.root[f] = NoEntry
    /\ \E g \in Names : IsFile(fs0.archive[g]) /\ fs.archive[g] = NoEntry

\* the 'Log maintenance finished.' entry of the current run is on the console
FinishedLogged ==
    ticks > 0 /\ Line("MAINTENANCE", "Log maintenance finished.", "") \in console
\* the entries a run logs for its work
WorkLines(ls) ==
    {l \in ls : l.level = "ERROR" \/ l.text \in {"ARCHIVED log file", "PURGED log file"}}

\* C18: the 'Log maintenance finished.' entry of a run is logged only after the
\* run's work: while it is on the console no listing, stat, move or delete of the
\* run is pending, and no 'ARCHIVED', 'PURGED' or error entry is logged after it.
C18_FinishedAfterWork ==
    /\ [](FinishedLogged => ops = {})
    /\ [][FinishedLogged => WorkLines(console') \subseteq WorkLines(console)]_vars

\* the root files the current run has moved out of root
Archived == {f \in Names : IsFile(fs0.root[f]) /\ fs.root[f] = NoEntry}

\* C19: no file is both archived and purged within one tick: when the tick's
\* operations have all completed, every file the archive rule moved out of root
\* during it is in the archive, whatever its age and in whatever order the two
\* rules' steps ran.
C19_ArchivedNotPurgedInSameTick ==
    RunEnded => \A f \in Archived : fs.archive[f] = fs0.root[f]

====
